---- MODULE Spec2Model ----
(***************************************************************************)
(* gas-agent: a registry (GASAgent) of named agents, each bound to one of  *)
(* six LLM providers.  The model covers both editions of the library: the  *)
(* Apps Script edition (src/gas/Code.gs) and the TypeScript edition (the   *)
(* code that follows the manifest in src/package.json).                    *)
(***************************************************************************)
EXTENDS Integers, Sequences, FiniteSets, TLC

VARIABLES
  edition,  \* "gas" or "ts": which edition of the library is running
  agents,   \* this.agents: own keys (agent names) -> agent object
  held,     \* the array a caller kept from a getHistory() call
  last      \* what the last call did and returned, as its caller observes it

vars == <<edition, agents, held, last>>

(***************************************************************************)
(* JavaScript values.  Every value carries its type tag t and, in s, the   *)
(* string a template literal `${v}` turns it into.                         *)
(***************************************************************************)
Str(s) == [t |-> "string", s |-> s]
Num(s) == [t |-> "number", s |-> s]
Undefined == [t |-> "undefined", s |-> "undefined"]
Null == [t |-> "null", s |-> "null"]
True == [t |-> "boolean", s |-> "true"]
False == [t |-> "boolean", s |-> "false"]
\* an Error object (what `new Error(msg)` or a runtime TypeError builds)
Err(msg) == [t |-> "Error", s |-> msg]

\* typeof v
TypeOf(v) ==
  IF v.t \in {"null", "Error"} THEN "object" ELSE v.t

\* ToBoolean(v): what `!v`, `v || w` and `if (v)` test
Truthy(v) ==
  CASE v.t = "string" -> v.s # ""
    [] v.t = "number" -> v.s \notin {"0", "NaN"}
    [] v.t = "boolean" -> v.s = "true"
    [] v.t \in {"undefined", "null"} -> FALSE
    [] OTHER -> TRUE

\* a || b
Or(a, b) == IF Truthy(a) THEN a ELSE b

\* `${v}`
ToStr(v) == v.s

\* reading v.message: [throws, value]; a property read of null or undefined
\* throws a TypeError, a string or number has no such property
ReadMessage(v) ==
  IF v.t \in {"undefined", "null"}
    THEN [throws |-> TRUE,
          value |-> Err("Cannot read properties of " \o v.s \o " (reading 'message')")]
    ELSE [throws |-> FALSE,
          value |-> IF v.t = "Error" THEN Str(v.s) ELSE Undefined]

\* error instanceof Error ? error.message : 'Unknown error'   (TS edition)
MessageOrUnknown(v) ==
  IF v.t = "Error" THEN v.s ELSE "Unknown error"

(***************************************************************************)
(* Messages, configs, requests and responses.                              *)
(***************************************************************************)
Msg(role, content) == [role |-> role, content |-> content]

\* the ProviderConfig object a caller passes to createAgent; defined = FALSE
\* is `undefined` passed in its place; an absent field reads as undefined
Config(apiKey, model, systemPrompt, temperature, max_tokens, baseURL, hasMessages, messages) ==
  [defined |-> TRUE, apiKey |-> apiKey, model |-> model, systemPrompt |-> systemPrompt,
   temperature |-> temperature, max_tokens |-> max_tokens, baseURL |-> baseURL,
   hasMessages |-> hasMessages, messages |-> messages]

NoConfig ==
  [defined |-> FALSE, apiKey |-> Undefined, model |-> Undefined, systemPrompt |-> Undefined,
   temperature |-> Undefined, max_tokens |-> Undefined, baseURL |-> Undefined,
   hasMessages |-> FALSE, messages |-> <<>>]

\* no request was sent
NoRequest ==
  [shape |-> "none", url |-> "", key |-> Undefined, model |-> Undefined,
   messages |-> <<>>, text |-> Undefined, hasGenerationConfig |-> FALSE,
   temperature |-> Undefined, max_tokens |-> Undefined]

\* what a generateResponse call did: it returned {status, response} or
\* {status, error}, or it threw `thrown`; lookups and fetches count its calls
\* of the script-property store and of UrlFetchApp.fetch
Returned(status, response, error, lookups, fetches, request) ==
  [outcome |-> "return", status |-> status, response |-> response, error |-> error,
   thrown |-> Undefined, lookups |-> lookups, fetches |-> fetches, request |-> request]

Threw(thrown, lookups, fetches, request) ==
  [outcome |-> "throw", status |-> 0, response |-> Undefined, error |-> Undefined,
   thrown |-> thrown, lookups |-> lookups, fetches |-> fetches, request |-> request]

(***************************************************************************)
(* The six providers.  Each class repeats the same generateResponse; the   *)
(* table holds what differs between the classes and between the editions.  *)
(***************************************************************************)
ProviderKinds == {"OpenAI", "GoogleAI", "DeepSeek", "OpenRouter", "Groq", "OpenAILike"}

Provider(secretName, keyError, needsBaseURL, shape, endpoint, defaultModel, usesMessages, apiErrorPrefix, fallback, catchPrefix) ==
  [secretName |-> secretName, keyError |-> keyError, needsBaseURL |-> needsBaseURL,
   shape |-> shape, endpoint |-> endpoint, defaultModel |-> defaultModel,
   usesMessages |-> usesMessages, apiErrorPrefix |-> apiErrorPrefix,
   fallback |-> fallback, catchPrefix |-> catchPrefix]

\* the Apps Script edition's classes
GasProvider(kind) ==
  CASE kind = "OpenAI" ->
         Provider("OPENAI_API_KEY", "OpenAI API key is required.", FALSE, "openai",
                  "https://api.openai.com/v1/chat/completions", "gpt-3.5-turbo", FALSE,
                  "OpenAI API error: ", "No response from OpenAI.", "OpenAIProvider error: ")
    [] kind = "OpenAILike" ->
         Provider("OPENAI_LIKE_API_KEY", "API key is required.", TRUE, "openai",
                  "/chat/completions", "gpt-3.5-turbo", TRUE,
                  "API error: ", "No response from API.", "OpenAILikeProvider error: ")
    [] kind = "GoogleAI" ->
         Provider("GOOGLEAI_API_KEY", "Google AI API key is required.", FALSE, "google",
                  "https://generativelanguage.googleapis.com/v1/models/", "gemini-2.0-flash",
                  FALSE, "Google AI API error: ", "No response from Google AI.",
                  "GoogleAIProvider error: ")
    [] kind = "DeepSeek" ->
         Provider("DEEPSEEK_API_KEY", "DeepSeek API key is required.", FALSE, "openai",
                  "https://api.deepseek.com/v1/chat/completions", "deepseek-chat", FALSE,
                  "DeepSeek API error: ", "No response from DeepSeek.",
                  "DeepSeekProvider error: ")
    [] kind = "OpenRouter" ->
         Provider("OPENROUTER_API_KEY", "OpenRouter API key is required.", FALSE, "openai",
                  "https://openrouter.ai/api/v1/chat/completions", "openai/gpt-3.5-turbo",
                  FALSE, "OpenRouter API error: ", "No response from OpenRouter.",
                  "OpenRouterProvider error: ")
    [] kind = "Groq" ->
         Provider("GROQ_API_KEY", "Groq API key is required.", FALSE, "openai",
                  "https://api.groq.com/openai/v1/chat/completions", "mixtral-8x7b-32768",
                  FALSE, "Groq API error: ", "No response from Groq.", "GroqProvider error: ")

\* the TypeScript edition's classes
TsProvider(kind) ==
  CASE kind = "OpenAI" ->
         Provider("OPENAI_API_KEY", "OpenAI API key is required.", FALSE, "openai",
                  "https://api.openai.com/v1/chat/completions", "gpt-3.5-turbo", TRUE,
                  "OpenAI API error: ", "No response from OpenAI.", "OpenAIProvider error: ")
    [] kind = "OpenAILike" ->
         Provider("OPENAI_LIKE_API_KEY", "API key is required.", FALSE, "openai",
                  "https://api.example.com/v1/chat/completions", "", TRUE,
                  "API error: ", "No response from API.", "Provider error: ")
    [] kind = "GoogleAI" ->
         Provider("GOOGLEAI_API_KEY", "Google AI API key is required.", FALSE, "google",
                  "https://generativelanguage.googleapis.com/v1/models/gemini-pro:generateContent",
                  "", FALSE, "Google AI API error: ", "No response from Google AI.",
                  "GoogleAIProvider error: ")
    [] kind = "DeepSeek" ->
         Provider("DEEPSEEK_API_KEY", "DeepSeek API key is required.", FALSE, "openai",
                  "https://api.deepseek.com/v1/chat/completions", "deepseek-chat", TRUE,
                  "DeepSeek API error: ", "No response from DeepSeek.",
                  "DeepSeekProvider error: ")
    [] kind = "OpenRouter" ->
         Provider("OPENROUTER_API_KEY", "OpenRouter API key is required.", FALSE, "openai",
                  "https://openrouter.ai/api/v1/chat/completions", "openai/gpt-3.5-turbo",
                  TRUE, "OpenRouter API error: ", "No response from OpenRouter.",
                  "OpenRouterProvider error: ")
    [] kind = "Groq" ->
         Provider("GROQ_API_KEY", "Groq API key is required.", FALSE, "openai",
                  "https://api.groq.com/openai/v1/chat/completions", "mixtral-8x7b-32768",
                  TRUE, "Groq API error: ", "No response from Groq.", "GroqProvider error: ")

ProviderOf(ed, kind) == IF ed = "gas" THEN GasProvider(kind) ELSE TsProvider(kind)

(***************************************************************************)
(* The world outside: the script-property store and the transport.         *)
(***************************************************************************)
\* one getProperty call: it returns `value` (a key, or null) or throws `thrown`
Secret(throws, value, thrown) == [throws |-> throws, value |-> value, thrown |-> thrown]

\* one UrlFetchApp.fetch call and the body it delivers.  fetch "throw": the
\* call throws `thrown`.  parse "throw": the body is not JSON.  Otherwise the
\* parsed result is null (kind "null") or an object whose error field is
\* absent ("none"), an object carrying message errmsg ("object") or a bare
\* string ("string"), and whose text sits at the end of a path of which the
\* first `path` levels are present.
Upstream(fetch, thrown, parse, kind, error, errmsg, path, text) ==
  [fetch |-> fetch, thrown |-> thrown, parse |-> parse, kind |-> kind, error |-> error,
   errmsg |-> errmsg, path |-> path, text |-> text]

\* result.choices[0]?.message?.content, with path counting the levels
\* choices, choices[0], message that are present: [throws, value]
ExtractOpenAI(up) ==
  CASE up.path = 0 ->
         [throws |-> TRUE, value |-> Err("Cannot read properties of undefined (reading '0')")]
    [] up.path \in {1, 2} -> [throws |-> FALSE, value |-> Undefined]
    [] OTHER -> [throws |-> FALSE, value |-> up.text]

\* result.candidates[0]?.content?.parts[0]?.text, with path counting the
\* levels candidates, candidates[0], content, parts, parts[0]: [throws, value]
ExtractGoogle(up) ==
  CASE up.path \in {0, 3} ->
         [throws |-> TRUE, value |-> Err("Cannot read properties of undefined (reading '0')")]
    [] up.path \in {1, 2, 4} -> [throws |-> FALSE, value |-> Undefined]
    [] OTHER -> [throws |-> FALSE, value |-> up.text]

Extract(shape, up) == IF shape = "google" THEN ExtractGoogle(up) ELSE ExtractOpenAI(up)

(***************************************************************************)
(* generateResponse(input, config), for the class registered under `kind`. *)
(***************************************************************************)
\* the request a provider builds once it has an API key
BuildRequest(ed, kind, input, config, apiKey) ==
  LET p == ProviderOf(ed, kind) IN
  IF p.shape = "google"
    THEN [shape |-> "google",
          url |-> IF ed = "gas"
                    THEN p.endpoint \o ToStr(Or(config.model, Str(p.defaultModel)))
                           \o ":generateContent"
                    ELSE p.endpoint,
          key |-> apiKey, model |-> Undefined, messages |-> <<>>, text |-> input,
          hasGenerationConfig |-> (ed = "gas"),
          temperature |-> IF ed = "gas" THEN Or(config.temperature, Num("0.7")) ELSE Undefined,
          max_tokens |-> IF ed = "gas" THEN Or(config.max_tokens, Num("100")) ELSE Undefined]
    ELSE [shape |-> "openai",
          url |-> CASE kind = "OpenAILike" /\ ed = "gas" -> ToStr(config.baseURL) \o p.endpoint
                    [] kind = "OpenAILike" /\ ed = "ts" -> ToStr(Or(config.model, Str(p.endpoint)))
                    [] OTHER -> p.endpoint,
          key |-> apiKey,
          model |-> IF kind = "OpenAILike" /\ ed = "ts" THEN Undefined
                    ELSE Or(config.model, Str(p.defaultModel)),
          messages |-> IF p.usesMessages /\ config.hasMessages
                         THEN config.messages
                         ELSE <<Msg("user", input)>>,
          text |-> Undefined, hasGenerationConfig |-> FALSE,
          temperature |-> Or(config.temperature, Num("0.7")),
          max_tokens |-> Or(config.max_tokens, Num("100"))]

\* the provider's catch (error) { return {status: 500, error: `<prefix>${...}`} }
ProviderCatch(ed, p, e, lookups, req) ==
  IF ed = "gas"
    THEN LET m == ReadMessage(e) IN
         IF m.throws
           THEN Threw(m.value, lookups, 1, req)
           ELSE Returned(500, Undefined, Str(p.catchPrefix \o ToStr(m.value)), lookups, 1, req)
    ELSE Returned(500, Undefined, Str(p.catchPrefix \o MessageOrUnknown(e)), lookups, 1, req)

\* the provider's try block: fetch, parse, error field, extraction, fallback
ProviderTry(ed, p, up, lookups, req) ==
  CASE up.fetch = "throw" -> ProviderCatch(ed, p, up.thrown, lookups, req)
    [] up.fetch # "throw" /\ up.parse = "throw" ->
         ProviderCatch(ed, p, Err("Unexpected token < in JSON at position 0"), lookups, req)
    [] up.fetch # "throw" /\ up.parse # "throw" /\ up.kind = "null" ->
         ProviderCatch(ed, p, Err("Cannot read properties of null (reading 'error')"),
                       lookups, req)
    [] OTHER ->
         IF up.error # "none"
           THEN Returned(500, Undefined,
                         Str(p.apiErrorPrefix
                               \o (IF up.error = "object" THEN up.errmsg ELSE "undefined")),
                         lookups, 1, req)
           ELSE LET x == Extract(p.shape, up) IN
                IF x.throws
                  THEN ProviderCatch(ed, p, x.value, lookups, req)
                  ELSE Returned(200, Or(x.value, Str(p.fallback)), Undefined, lookups, 1, req)

GenerateResponse(ed, kind, input, config, secret, up) ==
  LET p == ProviderOf(ed, kind)
      needLookup == ~Truthy(config.apiKey)
      lookups == IF needLookup THEN 1 ELSE 0
      apiKey == IF needLookup THEN secret.value ELSE config.apiKey
  IN
  IF needLookup /\ secret.throws
    THEN Threw(secret.thrown, 1, 0, NoRequest)
    ELSE IF ~Truthy(apiKey)
      THEN Returned(400, Undefined, Str(p.keyError), lookups, 0, NoRequest)
      ELSE IF p.needsBaseURL /\ ~Truthy(config.baseURL)
        THEN Returned(400, Undefined, Str("Base URL is required for OpenAILike provider."),
                      lookups, 0, NoRequest)
        ELSE ProviderTry(ed, p, up, lookups, BuildRequest(ed, kind, input, config, apiKey))

(***************************************************************************)
(* The registry: this.agents and this.providers are plain objects, so a    *)
(* read this.agents[k] or this.providers[k] finds an own key or, failing   *)
(* that, a property inherited from Object.prototype.                       *)
(***************************************************************************)
ObjectPrototypeKeys ==
  {"constructor", "toString", "toLocaleString", "valueOf", "hasOwnProperty",
   "isPrototypeOf", "propertyIsEnumerable", "__proto__"}

\* this.agents[name] is truthy
AgentsHas(ags, name) == name \in DOMAIN ags \/ name \in ObjectPrototypeKeys

\* this.providers[providerName] is truthy
ProvidersHas(providerName) ==
  providerName \in ProviderKinds \/ providerName \in ObjectPrototypeKeys

\* a call that returns nothing
Void == Returned(0, Undefined, Undefined, 0, 0, NoRequest)

\* a call that throws new Error(msg)
Raise(msg) == Threw(Err(msg), 0, 0, NoRequest)

\* a createAgent that looks the provider up before it looks the name up
CreateAgentProviderFirst(ags, agentName, providerName, config) ==
  CASE ~Truthy(agentName) \/ TypeOf(agentName) # "string" ->
         [agents |-> ags, r |-> Raise("Agent name must be a non-empty string.")]
    [] Truthy(agentName) /\ TypeOf(agentName) = "string" /\ ~ProvidersHas(providerName) ->
         [agents |-> ags, r |-> Raise("Provider '" \o providerName \o "' not registered.")]
    [] Truthy(agentName) /\ TypeOf(agentName) = "string" /\ ProvidersHas(providerName)
         /\ AgentsHas(ags, agentName.s) ->
         [agents |-> ags, r |-> Raise("Agent '" \o agentName.s \o "' already exists.")]
    [] OTHER ->
         IF ~config.defined
           THEN [agents |-> ags,
                 r |-> Raise("Cannot read properties of undefined (reading 'systemPrompt')")]
           ELSE [agents |-> ags @@ (agentName.s :>
                                      [providerName |-> providerName, config |-> config,
                                       systemPrompt |-> Or(config.systemPrompt, Str("")),
                                       messageHistory |-> <<>>]),
                 r |-> Void]

\* a createAgent that stores the name before it builds the agent object
CreateAgentAssignFirst(ags, agentName, providerName, config) ==
  CASE ~Truthy(agentName) \/ TypeOf(agentName) # "string" ->
         [agents |-> ags, r |-> Raise("Agent name must be a non-empty string.")]
    [] Truthy(agentName) /\ TypeOf(agentName) = "string" /\ AgentsHas(ags, agentName.s) ->
         [agents |-> ags, r |-> Raise("Agent '" \o agentName.s \o "' already exists.")]
    [] Truthy(agentName) /\ TypeOf(agentName) = "string" /\ ~AgentsHas(ags, agentName.s)
         /\ ~ProvidersHas(providerName) ->
         [agents |-> ags, r |-> Raise("Provider '" \o providerName \o "' not registered.")]
    [] OTHER ->
         [agents |-> ags @@ (agentName.s :>
                               [providerName |-> providerName, config |-> config,
                                systemPrompt |-> Or(config.systemPrompt, Str("")),
                                messageHistory |-> <<>>]),
          r |-> IF ~config.defined
                  THEN Raise("Cannot read properties of undefined (reading 'systemPrompt')")
                  ELSE Void]

\* createAgent(agentName, providerName, config) on the registry ags:
\* the registry afterwards and the call's outcome
CreateAgentOn(ags, agentName, providerName, config) ==
  CASE ~Truthy(agentName) \/ TypeOf(agentName) # "string" ->
         [agents |-> ags, r |-> Raise("Agent name must be a non-empty string.")]
    [] Truthy(agentName) /\ TypeOf(agentName) = "string" /\ AgentsHas(ags, agentName.s) ->
         [agents |-> ags, r |-> Raise("Agent '" \o agentName.s \o "' already exists.")]
    [] Truthy(agentName) /\ TypeOf(agentName) = "string" /\ ~AgentsHas(ags, agentName.s)
         /\ ~ProvidersHas(providerName) ->
         [agents |-> ags, r |-> Raise("Provider '" \o providerName \o "' not registered.")]
    [] OTHER ->
         IF ~config.defined
           THEN [agents |-> ags,
                 r |-> Raise("Cannot read properties of undefined (reading 'systemPrompt')")]
           ELSE [agents |-> ags @@ (agentName.s :>
                                      [providerName |-> providerName, config |-> config,
                                       systemPrompt |-> Or(config.systemPrompt, Str("")),
                                       messageHistory |-> <<>>]),
                 r |-> Void]

\* listAgents(): Object.keys(this.agents), the registry's own keys
ListAgentsOf(ags) == DOMAIN ags

(***************************************************************************)
(* The agent's methods, as functions of the agent object.                  *)
(***************************************************************************)
\* a setSystemPrompt without its typeof test
SetSystemPromptUnchecked(agent, prompt) ==
  [agent |-> [agent EXCEPT !.systemPrompt = prompt], r |-> Void]

\* setSystemPrompt(prompt): the agent afterwards and the call's outcome
SetSystemPromptOn(agent, prompt) ==
  IF TypeOf(prompt) # "string"
    THEN [agent |-> agent, r |-> Raise("System prompt must be a string.")]
    ELSE [agent |-> [agent EXCEPT !.systemPrompt = prompt], r |-> Void]

\* a clearHistory that resets the whole conversation state
ClearHistoryAndPrompt(agent) ==
  [agent EXCEPT !.messageHistory = <<>>, !.systemPrompt = Str("")]

\* clearHistory()
ClearHistoryOn(agent) == [agent EXCEPT !.messageHistory = <<>>]

\* getHistory(): [...agent.messageHistory], a new array of the same message
\* objects; item i of the copy is the object at index i of the agent's array
GetHistoryOf(agent) ==
  [i \in 1..Len(agent.messageHistory) |-> [alias |-> TRUE, idx |-> i, msg |-> Msg("", Undefined)]]

\* the messages array query assembles
AssembleMessages(agent, input) ==
  (IF Truthy(agent.systemPrompt) THEN <<Msg("system", agent.systemPrompt)>> ELSE <<>>)
    \o agent.messageHistory \o <<Msg("user", input)>>

\* the call this.providers[providerName].generateResponse(input, chatConfig)
Delegate(ed, agent, input, chatConfig, secret, up) ==
  IF agent.providerName \in ProviderKinds
    THEN GenerateResponse(ed, agent.providerName, input, chatConfig, secret, up)
    ELSE Raise("this.providers[providerName].generateResponse is not a function")

\* query's catch (error) { return {status: 500, error: ...} }
QueryCatch(ed, r) ==
  IF ed = "gas"
    THEN LET m == ReadMessage(r.thrown) IN
         IF m.throws
           THEN Threw(m.value, r.lookups, r.fetches, r.request)
           ELSE Returned(500, Undefined, Str("Error during query execution: " \o ToStr(m.value)),
                         r.lookups, r.fetches, r.request)
    ELSE Returned(500, Undefined,
                  Str("Error during query execution: " \o MessageOrUnknown(r.thrown)),
                  r.lookups, r.fetches, r.request)

\* a validation that forgets the typeof test
InvalidInputFalsyOnly(input) == ~Truthy(input)

\* if (!input || typeof input !== 'string')
InvalidInput(input) == ~Truthy(input) \/ TypeOf(input) # "string"

\* a push that replaces the recorded turns by the new one
RecordedLatestOnly(agent, input, response) ==
  <<Msg("user", input), Msg("assistant", response)>>

\* a push that stores the assembled request (system prompt included)
RecordedAssembled(agent, input, response) ==
  (IF Truthy(agent.systemPrompt) THEN <<Msg("system", agent.systemPrompt)>> ELSE <<>>)
    \o agent.messageHistory \o <<Msg("user", input), Msg("assistant", response)>>

\* agent.messageHistory.push({role: 'user', ...}, {role: 'assistant', ...})
Recorded(agent, input, response) ==
  agent.messageHistory \o <<Msg("user", input), Msg("assistant", response)>>

\* a test that forgets keepHistory
RecordsEverySuccess(ed, r, keepHistory) ==
  r.outcome = "return" /\ r.status = 200

\* whether query records the turn
Records(ed, r, keepHistory) ==
  /\ r.outcome = "return"
  /\ r.status = 200
  /\ Truthy(keepHistory)
  /\ (ed = "ts" => Truthy(r.response))

\* a merge in which the config's own fields win: {messages, ...config}
ChatConfigOwnFirst(config, messages) ==
  IF config.hasMessages THEN config
  ELSE [config EXCEPT !.hasMessages = TRUE, !.messages = messages]

\* const chatConfig = { ...config, messages }
ChatConfig(config, messages) ==
  [config EXCEPT !.hasMessages = TRUE, !.messages = messages]

\* query(input, keepHistory): the agent afterwards, the call's outcome, and the
\* messages it handed to the provider (delegated = FALSE: it handed none)
QueryOn(ed, agent, input, kh, secret, up) ==
  LET keepHistory == IF kh.t = "undefined" THEN True ELSE kh IN
  IF InvalidInput(input)
    THEN [agent |-> agent, delegated |-> FALSE, messages |-> <<>>,
          r |-> Returned(400, Undefined, Str("Input must be a non-empty string."),
                         0, 0, NoRequest)]
    ELSE LET messages == AssembleMessages(agent, input)
             chatConfig == ChatConfig(agent.config, messages)
             r == Delegate(ed, agent, input, chatConfig, secret, up)
         IN
         [agent |-> IF Records(ed, r, keepHistory)
                      THEN [agent EXCEPT !.messageHistory = Recorded(agent, input, r.response)]
                      ELSE agent,
          delegated |-> TRUE, messages |-> chatConfig.messages,
          r |-> IF r.outcome = "throw" THEN QueryCatch(ed, r) ELSE r]

(***************************************************************************)
(* Calls.  `last` is the last call with its arguments and its outcome.     *)
(***************************************************************************)
\* the inputs of a generateResponse call made on a provider directly
NoGiven ==
  [drawn |-> FALSE, input |-> Undefined, config |-> NoConfig,
   secret |-> Secret(FALSE, Null, Undefined),
   up |-> Upstream("ok", Undefined, "ok", "object", "none", "", 0, Undefined)]

\* a key is at hand: config.apiKey, or else the store's answer
HasKey(config, secret) ==
  Truthy(config.apiKey) \/ (~secret.throws /\ Truthy(secret.value))

\* keyed: the query had a key at hand, whether or not it came to use it;
\* configured: a createAgent call was given a config object;
\* hlen: how many messages the agent's history held when the call began
Call(op, agent, arg, kh, kind, q, value) ==
  [op |-> op, configured |-> FALSE,
   hlen |-> IF agent \in DOMAIN agents
                         THEN Len(agents[agent].messageHistory) ELSE 0, agent |-> agent, arg |-> arg, kh |-> kh, kind |-> kind,
   outcome |-> q.r.outcome, status |-> q.r.status, response |-> q.r.response,
   error |-> q.r.error, thrown |-> q.r.thrown, lookups |-> q.r.lookups,
   fetches |-> q.r.fetches, request |-> q.r.request,
   delegated |-> q.delegated, messages |-> q.messages, value |-> value, names |-> {},
   given |-> NoGiven, keyed |-> FALSE]

\* a call that hands nothing to a provider
Plain(r) == [r |-> r, delegated |-> FALSE, messages |-> <<>>]

NoHeld == [agent |-> "", items |-> <<>>]

\* the messages the held array shows its holder
HeldView ==
  [i \in 1..Len(held.items) |->
     IF held.items[i].alias
       THEN agents[held.agent].messageHistory[held.items[i].idx]
       ELSE held.items[i].msg]

\* the held array once agent a has replaced its messageHistory array: the
\* message objects it shares are no longer the agent's
Detached(a) ==
  IF held.agent # a THEN held
  ELSE [held EXCEPT !.items =
          [i \in 1..Len(held.items) |-> [alias |-> FALSE, idx |-> 0, msg |-> HeldView[i]]]]

\* bound: the turns an agent records before the model stops querying it
MaxTurns == 2

CreateAgent(agentName, providerName, config) ==
  LET c == CreateAgentOn(agents, agentName, providerName, config) IN
  /\ agents' = c.agents
  /\ last' = [Call("createAgent", IF TypeOf(agentName) = "string" THEN agentName.s ELSE "",
                   agentName, Undefined, providerName, Plain(c.r), <<>>)
                EXCEPT !.configured = config.defined]
  /\ UNCHANGED <<edition, held>>

SetSystemPrompt(a, prompt) ==
  LET c == SetSystemPromptOn(agents[a], prompt) IN
  /\ agents' = [agents EXCEPT ![a] = c.agent]
  /\ last' = Call("setSystemPrompt", a, prompt, Undefined, "", Plain(c.r), <<>>)
  /\ UNCHANGED <<edition, held>>

ClearHistory(a) ==
  /\ agents' = [agents EXCEPT ![a] = ClearHistoryOn(agents[a])]
  /\ held' = Detached(a)
  /\ last' = Call("clearHistory", a, Undefined, Undefined, "", Plain(Void), <<>>)
  /\ UNCHANGED edition

\* getHistory(); keep: the caller keeps the returned array for later use
GetHistory(a, keep) ==
  LET copy == GetHistoryOf(agents[a]) IN
  /\ held' = IF keep THEN [agent |-> a, items |-> copy] ELSE held
  /\ last' = Call("getHistory", a, Undefined, Undefined, "", Plain(Void),
                  [i \in 1..Len(copy) |-> agents[a].messageHistory[copy[i].idx]])
  /\ UNCHANGED <<edition, agents>>

\* a query whose recorded turn goes to every agent bound to the same
\* provider, as if the provider instance kept the conversation
QuerySharedHistory(a, input, kh, secret, up) ==
  LET q == QueryOn(edition, agents[a], input, kh, secret, up)
      turn == SubSeq(q.agent.messageHistory, Len(agents[a].messageHistory) + 1,
                     Len(q.agent.messageHistory))
  IN
  /\ Len(agents[a].messageHistory) < 2 * MaxTurns
  /\ agents' = [x \in DOMAIN agents |->
                  IF x = a THEN q.agent
                  ELSE IF agents[x].providerName = agents[a].providerName
                          /\ Len(agents[x].messageHistory) < 2 * MaxTurns
                    THEN [agents[x] EXCEPT !.messageHistory = @ \o turn]
                    ELSE agents[x]]
  /\ last' = [Call("query", a, input, kh, "", q, <<>>)
                EXCEPT !.keyed = HasKey(agents[a].config, secret)]
  /\ UNCHANGED <<edition, held>>

Query(a, input, kh, secret, up) ==
  LET q == QueryOn(edition, agents[a], input, kh, secret, up) IN
  /\ Len(agents[a].messageHistory) < 2 * MaxTurns
  /\ agents' = [agents EXCEPT ![a] = q.agent]
  /\ last' = [Call("query", a, input, kh, "", q, <<>>)
                EXCEPT !.keyed = HasKey(agents[a].config, secret)]
  /\ UNCHANGED <<edition, held>>

\* listAgents(), a method of the Apps Script edition's class only
ListAgents ==
  /\ edition = "gas"
  /\ last' = [Call("listAgents", "", Undefined, Undefined, "", Plain(Void), <<>>)
                EXCEPT !.names = ListAgentsOf(agents)]
  /\ UNCHANGED <<edition, agents, held>>

\* provider.generateResponse(input, config) called on the provider class
\* registered under `kind`, with the inputs the initial state has drawn
Generate(kind) ==
  LET g == last.given
      r == GenerateResponse(edition, kind, g.input, g.config, g.secret, g.up)
  IN
  /\ last.op = "init"
  /\ g.drawn
  /\ last' = [Call("generateResponse", "", g.input, Undefined, kind, Plain(r), <<>>)
                EXCEPT !.configured = TRUE, !.given = g]
  /\ UNCHANGED <<edition, agents, held>>

\* the caller assigns a field of the config object it passed to createAgent
\* for agent a: config[field] = v.  The agent's closure holds that object.
ConfigSet(a, field, v) ==
  /\ agents[a].config[field] # v
  /\ agents' = [agents EXCEPT ![a].config = [@ EXCEPT ![field] = v]]
  /\ last' = Call("configSet", a, v, Undefined, "", Plain(Void), <<>>)
  /\ UNCHANGED <<edition, held>>

\* bound: the length to which a caller grows an array it holds
MaxHeld == 3

\* the caller pushes a message of its own onto the array it holds
HeldPush(m) ==
  /\ held.agent # ""
  /\ Len(held.items) < MaxHeld
  /\ held' = [held EXCEPT !.items = Append(@, [alias |-> FALSE, idx |-> 0, msg |-> m])]
  /\ last' = Call("heldPush", held.agent, m.content, Undefined, "", Plain(Void), <<>>)
  /\ UNCHANGED <<edition, agents>>

\* the caller pops the last element off the array it holds
HeldPop ==
  /\ held.agent # ""
  /\ Len(held.items) > 0
  /\ held' = [held EXCEPT !.items = SubSeq(@, 1, Len(@) - 1)]
  /\ last' = Call("heldPop", held.agent, Undefined, Undefined, "", Plain(Void), <<>>)
  /\ UNCHANGED <<edition, agents>>

\* the caller assigns role and content of element i of the array it holds:
\* held[i].role = m.role; held[i].content = m.content.  The element is the
\* agent's own message object when the copy still shares it.
HeldSet(i, m) ==
  /\ held.agent # ""
  /\ i \in 1..Len(held.items)
  /\ IF held.items[i].alias
       THEN /\ agents' = [agents EXCEPT ![held.agent].messageHistory[held.items[i].idx] = m]
            /\ held' = held
       ELSE /\ held' = [held EXCEPT !.items[i].msg = m]
            /\ agents' = agents
  /\ last' = Call("heldSet", held.agent, m.content, Undefined, "", Plain(Void), <<>>)
  /\ UNCHANGED edition

(***************************************************************************)
(* The inputs the calls are tried with.                                    *)
(***************************************************************************)
NameInputs == {Str("a"), Str(""), Str("constructor"), Num("7")}

KindInputs == {"OpenAI", "GoogleAI", "OpenAILike", "NoSuchProvider", "constructor"}

EmptyConfig ==
  Config(Undefined, Undefined, Undefined, Undefined, Undefined, Undefined, FALSE, <<>>)

FullConfig ==
  Config(Str("sk-1"), Undefined, Str("be brief"), Undefined, Undefined, Str("http://h/v1"),
         FALSE, <<>>)

ConfigInputs == {EmptyConfig, FullConfig, NoConfig}

PromptInputs == {Str(""), Str("be brief"), Num("7")}

QueryInputs == {Str("hi"), Str(""), Num("7")}

KeepInputs == {Undefined, True, False}

SecretOutcomes ==
  {Secret(FALSE, Str("sk-2"), Undefined), Secret(FALSE, Null, Undefined),
   Secret(TRUE, Undefined, Err("store unavailable")), Secret(TRUE, Undefined, Null)}

Good(text) == Upstream("ok", Undefined, "ok", "object", "none", "", 5, text)

UpstreamOutcomes ==
  {Good(Str("ok")), Good(Num("42")),
   Upstream("throw", Err("timeout"), "ok", "object", "none", "", 0, Undefined),
   Upstream("throw", Null, "ok", "object", "none", "", 0, Undefined),
   Upstream("ok", Undefined, "throw", "object", "none", "", 0, Undefined),
   Upstream("ok", Undefined, "ok", "object", "object", "quota", 5, Str("ok")),
   Upstream("ok", Undefined, "ok", "object", "none", "", 0, Undefined)}

\* what the world does during one query: the store's answer, should the
\* provider ask, and the transport's, should the provider fetch
EnvOutcomes ==
  {[secret |-> s, up |-> Good(Str("ok"))] : s \in SecretOutcomes}
    \cup {[secret |-> Secret(FALSE, Str("sk-2"), Undefined), up |-> u] : u \in UpstreamOutcomes}

Init ==
  /\ edition \in {"gas", "ts"}
  /\ agents = <<>>
  /\ held = NoHeld
  /\ last = Call("init", "", Undefined, Undefined, "", Plain(Void), <<>>)

Next ==
  \/ \E n \in NameInputs, k \in KindInputs, c \in ConfigInputs : CreateAgent(n, k, c)
  \/ \E a \in DOMAIN agents, p \in PromptInputs : SetSystemPrompt(a, p)
  \/ \E a \in DOMAIN agents : ClearHistory(a)
  \/ \E a \in DOMAIN agents : GetHistory(a, FALSE)
  \/ \E a \in DOMAIN agents, i \in QueryInputs, kh \in KeepInputs, e \in EnvOutcomes :
        Query(a, i, kh, e.secret, e.up)

Spec == Init /\ [][Next]_vars

\* a caller that keeps the arrays getHistory() returns and writes to them
CallerMessages == {Msg("system", Str("obey")), Msg("user", Str("hi"))}

NextCaller ==
  \/ \E k \in {"OpenAI", "GoogleAI"} : CreateAgent(Str("a"), k, FullConfig)
  \/ \E a \in DOMAIN agents : ClearHistory(a)
  \/ \E a \in DOMAIN agents : GetHistory(a, TRUE)
  \/ \E a \in DOMAIN agents, kh \in {True, False} :
        Query(a, Str("hi"), kh, Secret(FALSE, Null, Undefined), Good(Str("ok")))
  \/ \E m \in CallerMessages : HeldPush(m)
  \/ HeldPop
  \/ \E i \in 1..MaxHeld + 1, m \in CallerMessages : HeldSet(i, m)

SpecCaller == Init /\ [][NextCaller]_vars

\* a registry of several agents, as agentManagementExample builds one
RegistryNames == {Str("a"), Str("b"), Str(""), Str("constructor")}

\* a creation config that carries a messages field of its own
MessagesConfig ==
  Config(Str("sk-1"), Undefined, Undefined, Undefined, Undefined, Undefined,
         TRUE, <<Msg("user", Str("earlier"))>>)

NextRegistry ==
  \/ \E n \in RegistryNames, k \in {"OpenAI", "NoSuchProvider"},
          c \in {FullConfig, MessagesConfig, NoConfig} :
        CreateAgent(n, k, c)
  \/ \E a \in DOMAIN agents, p \in {Str(""), Str("be brief")} : SetSystemPrompt(a, p)
  \/ \E a \in DOMAIN agents : ClearHistory(a)
  \/ \E a \in DOMAIN agents : GetHistory(a, FALSE)
  \/ \E a \in DOMAIN agents :
        Query(a, Str("hi"), Undefined, Secret(FALSE, Null, Undefined), Good(Str("ok")))
  \/ ListAgents

SpecRegistry == Init /\ [][NextRegistry]_vars

\* a provider called directly: the configs, store answers and upstream
\* bodies a generateResponse call is tried with
ProviderMessages == <<Msg("system", Str("be brief")), Msg("user", Str("hello"))>>

ProviderConfigs ==
  {Config(k, m, Undefined, t, x, b, h, IF h THEN ProviderMessages ELSE <<>>) :
     k \in {Undefined, Str(""), Str("sk-1")}, m \in {Undefined, Str("m-1")},
     t \in {Undefined, Num("0"), Num("0.2")}, x \in {Undefined, Num("0")},
     b \in {Undefined, Str("http://h/v1")}, h \in BOOLEAN}

\* a parsed body without error field whose path to the text stops after
\* `path` levels, or carries `text` at its end
Body(path, text) == Upstream("ok", Undefined, "ok", "object", "none", "", path, text)

ProviderUpstreams ==
  UpstreamOutcomes
    \cup {Body(n, Undefined) : n \in 0..5}
    \cup {Body(5, Str("")),
          Upstream("ok", Undefined, "ok", "null", "none", "", 0, Undefined),
          Upstream("ok", Undefined, "ok", "object", "string", "", 5, Str("ok")),
          Upstream("ok", Undefined, "ok", "object", "object", "quota", 0, Undefined)}

InitProvider ==
  /\ edition \in {"gas", "ts"}
  /\ agents = <<>>
  /\ held = NoHeld
  /\ \E c \in ProviderConfigs, s \in SecretOutcomes, u \in ProviderUpstreams :
        last = [Call("init", "", Undefined, Undefined, "", Plain(Void), <<>>)
                  EXCEPT !.given = [drawn |-> TRUE, input |-> Str("hi"), config |-> c,
                                    secret |-> s, up |-> u]]

NextProvider == \E kind \in ProviderKinds : Generate(kind)

SpecProvider == InitProvider /\ [][NextProvider]_vars

\* a caller that keeps the config object it passed to createAgent and
\* writes to it between the queries
ConfigWrites ==
  {[field |-> "apiKey", v |-> Str("sk-9")], [field |-> "model", v |-> Str("m-2")],
   [field |-> "temperature", v |-> Num("0.2")], [field |-> "baseURL", v |-> Str("http://g/v1")],
   [field |-> "systemPrompt", v |-> Str("be rude")]}

NextOwner ==
  \/ \E k \in {"OpenAI", "GoogleAI", "OpenAILike"} : CreateAgent(Str("a"), k, FullConfig)
  \/ \E a \in DOMAIN agents, w \in ConfigWrites : ConfigSet(a, w.field, w.v)
  \/ \E a \in DOMAIN agents :
        Query(a, Str("hi"), Undefined, Secret(FALSE, Null, Undefined), Good(Str("ok")))

SpecOwner == Init /\ [][NextOwner]_vars

(***************************************************************************)
(* Properties.                                                             *)
(***************************************************************************)
\* the step is a call of `op`
Did(op) == last'.op = op

\* the history of the agent the step's call is made on, before and after
HistoryBefore == agents[last'.agent].messageHistory
HistoryAfter == agents'[last'.agent].messageHistory

\* C1: a query(input, keepHistory = true) that returns status 200 leaves the
\* history equal to the history before it followed by {user, input} and
\* {assistant, <the response it returned>}, in this order.
C1_RoundTrip ==
  [][(Did("query") /\ last'.kh \in {True, Undefined}
        /\ last'.outcome = "return" /\ last'.status = 200)
       => HistoryAfter = HistoryBefore
                           \o <<[role |-> "user", content |-> last'.arg],
                                [role |-> "assistant", content |-> last'.response]>>]_vars

\* a recorded query on an agent that already held a turn
C1_Witness ==
  /\ last.op = "query" /\ last.kh = True /\ last.status = 200
  /\ last.hlen = 2
  /\ Len(agents[last.agent].messageHistory) = 4

\* C2: in every reachable state every agent's history has even length and
\* holds no message of role system.
C2_EvenNoSystem ==
  \A a \in DOMAIN agents :
    /\ Len(agents[a].messageHistory) % 2 = 0
    /\ \A i \in 1..Len(agents[a].messageHistory) : agents[a].messageHistory[i].role # "system"

\* an agent with a system prompt has recorded two turns
C2_Witness ==
  \E a \in DOMAIN agents :
    /\ agents[a].systemPrompt = Str("be brief")
    /\ Len(agents[a].messageHistory) = 4
    /\ last.op = "query" /\ last.delegated /\ last.messages[1].role = "system"

\* C3: a query whose input is empty or not a string returns {status: 400,
\* error: "Input must be a non-empty string."}, looks up no secret, fetches
\* nothing, hands nothing to the provider and changes no agent.
C3_InvalidInput ==
  [][(Did("query") /\ (last'.arg.t # "string" \/ last'.arg.s = ""))
       => /\ last'.outcome = "return"
          /\ last'.status = 400
          /\ last'.error = Str("Input must be a non-empty string.")
          /\ last'.response = Undefined
          /\ last'.lookups = 0 /\ last'.fetches = 0 /\ ~last'.delegated
          /\ agents' = agents]_vars

\* a non-string input rejected by an agent that holds a turn and must
\* otherwise have asked the store for its key
C3_Witness ==
  /\ last.op = "query" /\ last.arg = Num("7") /\ last.status = 400
  /\ last.hlen = 2
  /\ agents[last.agent].config.apiKey = Undefined

\* C4: a query that returns a status other than 200, or that is called with
\* keepHistory = false, leaves the agent's history as it was.
C4_HistoryFrame ==
  [][(Did("query") /\ ((last'.outcome = "return" /\ last'.status # 200) \/ last'.kh = False))
       => HistoryAfter = HistoryBefore]_vars

\* a successful query with keepHistory = false on an agent that holds a turn
C4_Witness ==
  /\ last.op = "query" /\ last.kh = False /\ last.status = 200
  /\ last.hlen = 2
  /\ Len(agents[last.agent].messageHistory) = 2

\* C5: query never raises, and what it returns is {status: 200, response:
\* <string>} or {status: 400 or 500, error: <string>}.
C5_QueryTotal ==
  last.op = "query"
    => /\ last.outcome = "return"
       /\ \/ last.status = 200 /\ last.response.t = "string" /\ last.error = Undefined
          \/ last.status \in {400, 500} /\ last.error.t = "string"
               /\ last.response = Undefined

\* C6: clearHistory() empties the history and keeps the system prompt: a
\* getHistory() that follows returns the empty sequence, and the messages the
\* next query assembles are the system message of the unchanged prompt (when
\* it is non-empty) and the new input, with no earlier turn.
C6_ClearHistory ==
  [][/\ Did("clearHistory")
          => /\ HistoryAfter = <<>>
             /\ agents'[last'.agent].systemPrompt = agents[last'.agent].systemPrompt
             /\ last'.outcome = "return"
     /\ (last.op = "clearHistory" /\ Did("getHistory") /\ last'.agent = last.agent)
          => last'.value = <<>>
     /\ (last.op = "clearHistory" /\ Did("query") /\ last'.agent = last.agent
           /\ last'.delegated)
          => last'.messages =
               (IF agents[last.agent].systemPrompt.s # ""
                  THEN <<[role |-> "system", content |-> agents[last.agent].systemPrompt]>>
                  ELSE <<>>)
                 \o <<[role |-> "user", content |-> last'.arg]>>]_vars

\* two recorded turns cleared on an agent that has a system prompt
C6_Witness ==
  /\ last.op = "clearHistory" /\ last.hlen = 4
  /\ agents[last.agent].messageHistory = <<>>
  /\ agents[last.agent].systemPrompt = Str("be brief")

\* C7: two getHistory() calls in a row return equal sequences, and nothing a
\* caller does to a returned array or to the messages in it changes the
\* agent's history.
C7_DefensiveCopy ==
  [][/\ (last.op = "getHistory" /\ Did("getHistory") /\ last'.agent = last.agent)
          => last'.value = last.value
     /\ (Did("heldPush") \/ Did("heldPop") \/ Did("heldSet"))
          => agents' = agents]_vars

\* C8: setSystemPrompt(prompt) with a string makes prompt the system prompt
\* the following queries use and leaves the history alone; with a non-string
\* it throws "System prompt must be a string." and changes nothing.
C8_SetSystemPrompt ==
  [][/\ (Did("setSystemPrompt") /\ last'.arg.t = "string")
          => /\ last'.outcome = "return"
             /\ agents'[last'.agent].systemPrompt = last'.arg
             /\ HistoryAfter = HistoryBefore
     /\ (Did("setSystemPrompt") /\ last'.arg.t # "string")
          => /\ last'.outcome = "throw"
             /\ last'.thrown = Err("System prompt must be a string.")
             /\ agents' = agents
     /\ (last.op = "setSystemPrompt" /\ last.arg.t = "string" /\ Did("query")
           /\ last'.agent = last.agent /\ last'.delegated)
          => IF last.arg.s # ""
               THEN last'.messages[1] = [role |-> "system", content |-> last.arg]
               ELSE last'.messages[1].role # "system"]_vars

\* a non-string prompt refused by an agent that has a prompt and a turn
C8_Witness ==
  /\ last.op = "setSystemPrompt" /\ last.arg = Num("7") /\ last.outcome = "throw"
  /\ last.hlen = 2
  /\ agents[last.agent].systemPrompt = Str("be brief")

\* C9: createAgent with a registered name throws "Agent '<name>' already
\* exists." whatever the provider kind and the config, and the registry,
\* with the first agent's history and system prompt, stays as it was.
C9_DuplicateName ==
  [][(Did("createAgent") /\ last'.arg.t = "string" /\ last'.arg.s \in DOMAIN agents)
       => /\ last'.outcome = "throw"
          /\ last'.thrown = Err("Agent '" \o last'.arg.s \o "' already exists.")
          /\ agents' = agents]_vars

\* a registered name given again with a provider kind that does not exist,
\* the first agent holding a turn
C9_Witness ==
  /\ last.op = "createAgent" /\ last.arg = Str("a") /\ last.kind = "NoSuchProvider"
  /\ last.thrown = Err("Agent 'a' already exists.")
  /\ last.hlen = 2
  /\ agents["a"].systemPrompt = Str("be brief")

\* C10: createAgent with a valid fresh name and a providerKind string that
\* is none of the six identifiers throws "Provider '<kind>' not registered."
\* and registers nothing.  (Stated for calls that pass a config object and a
\* name that is no property of Object.prototype, which createAgent takes
\* for registered.)
C10_UnknownProvider ==
  [][(Did("createAgent") /\ last'.configured
        /\ last'.arg.t = "string" /\ last'.arg.s # ""
        /\ last'.arg.s \notin DOMAIN agents /\ last'.arg.s \notin ObjectPrototypeKeys
        /\ last'.kind \notin ProviderKinds)
       => /\ last'.outcome = "throw"
          /\ last'.thrown = Err("Provider '" \o last'.kind \o "' not registered.")
          /\ agents' = agents]_vars

\* C11: listAgents() returns exactly the names whose createAgent call has
\* returned: the registry starts empty, a createAgent that returns adds its
\* name and nothing else, a createAgent that throws and every other call
\* leave the set of names as it was, and no name ever leaves it.
C11_ListAgents ==
  [][/\ (last.op = "init" => DOMAIN agents = {})
     /\ DOMAIN agents \subseteq DOMAIN agents'
     /\ (Did("createAgent") /\ last'.outcome = "return")
          => DOMAIN agents' = DOMAIN agents \cup {last'.arg.s}
     /\ ~(Did("createAgent") /\ last'.outcome = "return")
          => DOMAIN agents' = DOMAIN agents
     /\ Did("listAgents") => last'.names = DOMAIN agents']_vars

\* two agents listed after a createAgent that failed and a query
C11_Witness ==
  /\ last.op = "listAgents" /\ last.names = {"a", "b"}
  /\ Len(agents["a"].messageHistory) = 2

\* the names a provider goes by: its kind identifier, its class name and the
\* name its own messages use
ProviderLabels(kind) ==
  {kind, kind \o "Provider"} \cup (IF kind = "GoogleAI" THEN {"Google AI"} ELSE {})

\* the step before was a direct generateResponse call
Generated == last.op = "generateResponse"

\* the call had a key: config.apiKey, or else the store's answer
KeyAvailable ==
  \/ Truthy(last.given.config.apiKey)
  \/ ~last.given.secret.throws /\ Truthy(last.given.secret.value)

\* the call had no key: no config.apiKey and the store answered with none
KeyMissing ==
  /\ ~Truthy(last.given.config.apiKey)
  /\ ~last.given.secret.throws /\ ~Truthy(last.given.secret.value)

\* C12: for each of the six providers, generateResponse without
\* config.apiKey and without a key in the store returns {status: 400, error:
\* "<Provider> API key is required."}, the message naming the provider, and
\* fetches nothing.
C12_MissingKey ==
  (Generated /\ KeyMissing)
    => /\ last.outcome = "return"
       /\ last.status = 400
       /\ \E l \in ProviderLabels(last.kind) :
            last.error = Str(l \o " API key is required.")
       /\ last.fetches = 0

\* C13: OpenAILike.generateResponse with a key and without config.baseURL
\* returns a status-400 failure that is not the missing-key one and fetches
\* nothing; without key and without baseURL it returns the missing-key
\* failure.
C13_MissingBaseURL ==
  (Generated /\ last.kind = "OpenAILike" /\ ~Truthy(last.given.config.baseURL))
    => /\ KeyAvailable
            => /\ last.outcome = "return"
               /\ last.status = 400
               /\ last.error # Str(ProviderOf(edition, "OpenAILike").keyError)
               /\ last.fetches = 0
       /\ KeyMissing
            => /\ last.outcome = "return"
               /\ last.status = 400
               /\ last.error = Str(ProviderOf(edition, "OpenAILike").keyError)
               /\ last.fetches = 0

\* the cause a transport failure is reported with: the thrown error's
\* message, or what stands for it when the thrown value is no Error
Causes(up) ==
  CASE up.fetch = "throw" /\ up.thrown.t = "Error" -> {up.thrown.s}
    [] up.fetch = "throw" /\ up.thrown.t # "Error" -> {"Unknown error", up.thrown.s}
    [] OTHER -> {"Unexpected token < in JSON at position 0"}

\* C14: for each of the six providers, when the fetch throws or the body is
\* not JSON, generateResponse does not throw and returns status 500 with the
\* error "<ProviderName>Provider error: <cause>", ProviderName being the
\* provider's own name.
C14_TransportFailure ==
  (Generated /\ last.fetches = 1
     /\ (last.given.up.fetch = "throw" \/ last.given.up.parse = "throw"))
    => /\ last.outcome = "return"
       /\ last.status = 500
       /\ \E c \in Causes(last.given.up) :
            last.error = Str(last.kind \o "Provider error: " \o c)

\* C15: for each of the six providers, when the parsed body carries an error
\* field, generateResponse returns status 500 with the error "<ProviderName>
\* API error: <upstream message>" naming the provider, whether or not the
\* body also carries a text.
C15_UpstreamError ==
  (Generated /\ last.fetches = 1 /\ last.given.up.fetch = "ok"
     /\ last.given.up.parse = "ok" /\ last.given.up.kind = "object"
     /\ last.given.up.error = "object")
    => /\ last.outcome = "return"
       /\ last.status = 500
       /\ \E l \in ProviderLabels(last.kind) :
            last.error = Str(l \o " API error: " \o last.given.up.errmsg)

\* C16: for each provider, when the body parses, has no error field and its
\* path to the text stops at any level (or the text is absent at its end),
\* generateResponse returns status 200 with the response "No response from
\* <Provider>."
C16_Fallback ==
  (Generated /\ last.fetches = 1 /\ last.given.up.fetch = "ok"
     /\ last.given.up.parse = "ok" /\ last.given.up.kind = "object"
     /\ last.given.up.error = "none" /\ last.given.up.text = Undefined)
    => /\ last.outcome = "return"
       /\ last.status = 200
       /\ \E l \in ProviderLabels(last.kind) \cup {"API"} :
            last.response = Str("No response from " \o l \o ".")

\* C17: for OpenAI, DeepSeek, OpenRouter, Groq and OpenAILike, when the
\* config given to generateResponse carries a messages list, the request
\* body's messages field is that list.
C17_MessagesSent ==
  (Generated /\ last.fetches = 1 /\ last.kind # "GoogleAI"
     /\ last.given.config.hasMessages)
    => last.request.messages = last.given.config.messages

\* C18: a query with a non-empty string input hands its provider the
\* messages: {system, <the agent's system prompt>} iff that prompt is not
\* empty, then the agent's history in order, then {user, input}; a messages
\* field of the creation config is replaced by this list.
C18_AssembledMessages ==
  [][(Did("query") /\ last'.arg.t = "string" /\ last'.arg.s # "")
       => /\ last'.delegated
          /\ last'.messages =
               (IF agents[last'.agent].systemPrompt.s # ""
                  THEN <<[role |-> "system", content |-> agents[last'.agent].systemPrompt]>>
                  ELSE <<>>)
                 \o HistoryBefore
                 \o <<[role |-> "user", content |-> last'.arg]>>]_vars

\* a query of an agent that holds a turn and a prompt set after creation,
\* and whose creation config carried a messages field
C18_Witness ==
  /\ last.op = "query" /\ last.delegated /\ last.hlen = 2
  /\ agents[last.agent].config.hasMessages
  /\ Len(last.messages) = 4 /\ last.messages[1] = Msg("system", Str("be brief"))

\* C19: a query makes at most one fetch: none when its input is empty or
\* not a string, when no key is at hand or when the OpenAILike provider is
\* given no baseURL, and exactly one in every other case.
C19_OneRequest ==
  last.op = "query"
    => LET agent == agents[last.agent]
           invalid == last.arg.t # "string" \/ last.arg.s = ""
           missing == \/ ~last.keyed
                      \/ agent.providerName = "OpenAILike" /\ ~Truthy(agent.config.baseURL)
       IN /\ last.fetches \in {0, 1}
          /\ last.fetches = 0 <=> (invalid \/ missing)

\* C20: the requests an agent's queries build use the values the config had
\* when createAgent was called with it (here FullConfig), whatever the
\* caller has since written into the config object.
C20_ConfigSnapshot ==
  (last.op = "query" /\ last.fetches = 1)
    => last.request = BuildRequest(edition, agents[last.agent].providerName, last.arg,
                                   ChatConfig(FullConfig, last.messages), FullConfig.apiKey)

\* C21: in the request a provider builds, temperature is the config's
\* temperature whenever the config has one, 0 included, and 0.7 only when it
\* has none; max_tokens is the config's max_tokens whenever it has one, 0
\* included, and 100 only when it has none.
C21_Defaults ==
  (Generated /\ last.fetches = 1)
    => /\ last.request.temperature =
            IF last.given.config.temperature = Undefined
              THEN Num("0.7") ELSE last.given.config.temperature
       /\ last.request.max_tokens =
            IF last.given.config.max_tokens = Undefined
              THEN Num("100") ELSE last.given.config.max_tokens

\* C22: a query, setSystemPrompt or clearHistory call on one agent leaves
\* the history and the system prompt of every other agent of the registry
\* as they were, the agents bound to the same provider kind included.
C22_Isolation ==
  [][(Did("query") \/ Did("setSystemPrompt") \/ Did("clearHistory"))
       => \A b \in DOMAIN agents \ {last'.agent} :
            /\ b \in DOMAIN agents'
            /\ agents'[b].messageHistory = agents[b].messageHistory
            /\ agents'[b].systemPrompt = agents[b].systemPrompt]_vars

\* a query recorded by agent a as its second turn while agent b, bound to
\* the same provider kind, holds one turn and another system prompt
C22_Witness ==
  /\ last.op = "query" /\ last.agent = "a" /\ last.hlen = 2
  /\ "b" \in DOMAIN agents
  /\ agents["a"].providerName = agents["b"].providerName
  /\ Len(agents["a"].messageHistory) = 4
  /\ Len(agents["b"].messageHistory) = 2
  /\ agents["a"].systemPrompt = Str("be brief")
  /\ agents["b"].systemPrompt = Str("")

\* C23: createAgent with a non-empty string name that no earlier
\* createAgent has registered, whatever the name's content, with one of the
\* six provider kinds and a config, returns and registers under that name
\* an agent with empty history and the system prompt config.systemPrompt or
\* ""; "Agent '<name>' already exists." is thrown only for a name that is
\* registered.
C23_FreshName ==
  [][/\ (Did("createAgent") /\ last'.configured
           /\ last'.arg.t = "string" /\ last'.arg.s # ""
           /\ last'.arg.s \notin DOMAIN agents /\ last'.kind \in ProviderKinds)
          => /\ last'.outcome = "return"
             /\ DOMAIN agents' = DOMAIN agents \cup {last'.arg.s}
             /\ agents'[last'.arg.s].messageHistory = <<>>
             /\ agents'[last'.arg.s].systemPrompt
                  = Or(agents'[last'.arg.s].config.systemPrompt, Str(""))
     /\ (Did("createAgent") /\ last'.arg.t = "string" /\ last'.outcome = "throw"
           /\ last'.thrown = Err("Agent '" \o last'.arg.s \o "' already exists."))
          => last'.arg.s \in DOMAIN agents]_vars

====
